---- MODULE Spec2Model ----
(***************************************************************************)
(* Model of lint-md-codeblocks (src/main.py): the fenced-code-block        *)
(* scanner find_code_blocks, the buffer builder join_code_blocks, the      *)
(* analyzer output parsers and the per-file loop of main.                  *)
(*                                                                         *)
(* Text.  A Python str is modelled as a sequence of tokens.  A token is    *)
(* either one character ("\n", " ", "~", "#", "/", the backtick) or a      *)
(* word: a run of characters holding no whitespace, backtick, tilde or     *)
(* colon ("x", "python", "cpp", "nolint", "Intro", "x=1", ...).  The       *)
(* regular expression of find_code_blocks only distinguishes whitespace,   *)
(* newline, backtick, tilde and "anything else", so it matches a token     *)
(* sequence exactly as it matches the concatenation of the tokens.  The    *)
(* words "python", "cpp" and "nolint" cannot be formed across a token      *)
(* boundary of the alphabet used here and are part of no other word of it, *)
(* so the substring tests of join_code_blocks and main are token           *)
(* membership / first-token tests.                                         *)
(* Offsets (last_pos, match.start(), match.end()) are Python's 0-based     *)
(* offsets: the character at offset i is s[i + 1].                         *)
(***************************************************************************)
EXTENDS Integers, Sequences, FiniteSets, TLC

VARIABLES
  files,            \* the texts of the markdown files, in the order main visits them
  language,         \* the language argument: "python" or "cpp"
  idx,              \* number of files main has taken from the list
  content,          \* main's content: the text of the file taken last
  parts,            \* main's parts = find_code_blocks(content)
  content_to_lint,  \* main's content_to_lint, <<>> while it is unbound
  found_errors,     \* main's found_errors
  printed,          \* what main printed for the file taken last
  invoked,          \* subprocess.run was called for the file taken last
  analyzer,         \* that call: "none", "running", "ok", "crashed", "missing"
  staged,           \* temp.py / temp.cpp was written for the file taken last
  temp_file,        \* temp.py / temp.cpp exists on disk
  reported,         \* history: some diagnostic has been printed in this run
  pc,               \* "loop", "running", "returned", "raised"; "scan", "join", "joined"
  result            \* main's return value, -1 before it returns

vars == <<files, language, idx, content, parts, content_to_lint,
          found_errors, printed, invoked, analyzer, staged, temp_file,
          reported, pc, result>>

-----------------------------------------------------------------------------
(* Bounds of the model *)

\* a generated document has at most MaxLines lines
MaxLines == 4
\* the scanned directory holds at most MaxFiles markdown files
MaxFiles == 2
\* the analyzer reports line numbers 0 .. MaxLineNo
MaxLineNo == 4
\* the analyzer prints at most MaxOut lines for one file
MaxOut == 1

-----------------------------------------------------------------------------
(* Python str primitives on token sequences *)

Languages == {"python", "cpp"}

\* the characters of the alphabet that the regex class of whitespace and str.strip() treat as space
Whitespace == {"\n", " "}

\* the backtick character (a TLA+ string cannot hold one)
Backtick == "<backtick>"

\* the two fence characters of the pattern's group 2 (three backticks or
\* three tildes)
FenceChars == {Backtick, "~"}

Min(S) == CHOOSE x \in S : \A y \in S : x <= y

\* s[a:b]
Slice(s, a, b) == SubSeq(s, a + 1, b)

\* s.split(sep), sep a single character
RECURSIVE Split(_, _)
Split(s, sep) ==
  LET hits == {i \in 1..Len(s) : s[i] = sep}
  IN IF hits = {} THEN <<s>>
     ELSE <<SubSeq(s, 1, Min(hits) - 1)>>
            \o Split(SubSeq(s, Min(hits) + 1, Len(s)), sep)

\* sep.join(ls)
RECURSIVE Join(_, _)
Join(ls, sep) ==
  IF Len(ls) = 0 THEN <<>>
  ELSE IF Len(ls) = 1 THEN ls[1]
  ELSE ls[1] \o sep \o Join(Tail(ls), sep)

\* s.strip()
Strip(s) ==
  LET keep == {i \in 1..Len(s) : s[i] \notin Whitespace}
  IN IF keep = {} THEN <<>>
     ELSE SubSeq(s, Min(keep), CHOOSE j \in keep : \A k \in keep : k <= j)

\* s.splitlines(): split at "\n"; a final empty piece is not a line
\* ("\r" and the other exotic line boundaries are not in the alphabet)
Splitlines(s) ==
  LET ls == Split(s, "\n")
  IN IF ls[Len(ls)] = <<>> THEN SubSeq(ls, 1, Len(ls) - 1) ELSE ls

\* word in s, for a word that no two adjacent tokens can form
Contains(s, word) == \E i \in 1..Len(s) : s[i] = word

\* s.startswith(word)
Startswith(s, word) == Len(s) >= 1 /\ s[1] = word

-----------------------------------------------------------------------------
(* The pattern of find_code_blocks, src/main.py:25-27, compiled with       *)
(* DOTALL and MULTILINE.  Its pieces, in order:                            *)
(*   line start; group 1 = greedy whitespace; group 2 = three backticks or *)
(*   three tildes; group 3 = lazy any-characters; greedy whitespace; one   *)
(*   newline; group 4 = lazy any-characters; group 5 = line start, greedy  *)
(*   whitespace, group 2 again, greedy whitespace, line end.               *)
(* It is matched as Python's backtracking matcher does: leftmost start     *)
(* first, greedy pieces longest first, lazy pieces shortest first.         *)

\* offset of the first non-whitespace character at or after i (greedy whitespace)
WsRun(c, i) ==
  CHOOSE j \in i..Len(c) :
    /\ \A k \in (i + 1)..j : c[k] \in Whitespace
    /\ (j = Len(c) \/ c[j + 1] \notin Whitespace)

\* ^ under MULTILINE: start of text or just after a newline
LineStart(c, p) == p = 0 \/ c[p] = "\n"

\* group 2 at offset q: the fence character when three of them stand there
FenceAt(c, q) ==
  IF q + 3 <= Len(c) /\ c[q + 1] \in FenceChars
     /\ c[q + 2] = c[q + 1] /\ c[q + 3] = c[q + 1]
  THEN c[q + 1] ELSE ""

\* offset of the last newline in c[a:b], or -1
LastNewline(c, a, b) ==
  LET S == {j \in a..(b - 1) : c[j + 1] = "\n"}
  IN IF S = {} THEN -1 ELSE CHOOSE j \in S : \A k \in S : k <= j

\* CloseAt with the family test dropped: any fence line closes the block
CloseAtAnyFamily(c, t, fam) ==
  LET u == WsRun(c, t)
      v == u + 3
      w == WsRun(c, v)
  IN IF ~LineStart(c, t) \/ FenceAt(c, u) = "" THEN -1
     ELSE IF w = Len(c) THEN w
     ELSE LastNewline(c, v, w)

\* group 5 tried at offset t: the offset where the match ends,
\* or -1.  The trailing whitespace is greedy and backs off until $ holds, which is
\* the end of the text or the last newline of the whitespace run.
CloseAt(c, t, fam) ==
  LET u == WsRun(c, t)
      v == u + 3
      w == WsRun(c, v)
  IN IF ~LineStart(c, t) \/ FenceAt(c, u) # fam THEN -1
     ELSE IF w = Len(c) THEN w
     ELSE LastNewline(c, v, w)

NoMatch == [ok |-> FALSE]

\* the whole pattern tried at offset p
MatchAt(c, p) ==
  LET q == WsRun(c, p)                    \* end of group 1
      fam == FenceAt(c, q)                \* group 2
      r == q + 3
      nls == {j \in r..(Len(c) - 1) : c[j + 1] = "\n"}
      n1 == Min(nls)                      \* newline ending the opening line
      \* lazy group 3 stops where only whitespace is left on the line
      e == CHOOSE x \in r..n1 :
             /\ \A k \in x..(n1 - 1) : c[k + 1] \in Whitespace
             /\ (x = r \/ c[x] \notin Whitespace)
      \* greedy whitespace, newline: up to and including the last newline of the run
      s == LastNewline(c, e, WsRun(c, e)) + 1
      \* lazy group 4 stops at the first offset where group 5 matches
      ts == {t \in s..Len(c) : CloseAt(c, t, fam) # -1}
      t == Min(ts)
  IN IF ~LineStart(c, p) THEN NoMatch
     ELSE IF fam = "" THEN NoMatch
     ELSE IF nls = {} THEN NoMatch
     ELSE IF ts = {} THEN NoMatch
     ELSE [ok |-> TRUE, start |-> p, open |-> q, g1 |-> Slice(c, p, q),
           g2 |-> fam, g3 |-> Slice(c, r, e), code_start |-> s,
           g4 |-> Slice(c, s, t), close |-> t, fence_close |-> WsRun(c, t),
           end |-> CloseAt(c, t, fam)]

\* next match of finditer at or after offset pos
Search(c, pos) ==
  LET ps == {p \in pos..Len(c) : MatchAt(c, p).ok}
  IN IF ps = {} THEN NoMatch ELSE MatchAt(c, Min(ps))

-----------------------------------------------------------------------------
(* find_code_blocks, src/main.py:24-56 *)

Part(is_code, lang, block) ==
  [is_code |-> is_code, lang |-> lang, block |-> block]

\* lines 43-46: one content line, n = len(leading_spaces)
StripLine(line, n) ==
  IF Len(line) >= n /\ \A k \in 1..n : line[k] = " "
  THEN SubSeq(line, n + 1, Len(line))
  ELSE line

\* line 36: leading_spaces = match.group(1)[1:]
LeadingSpaces(m) == Slice(m.g1, 1, Len(m.g1))

\* lines 36-49: the code part of one match
CodePart(m) ==
  LET n == Len(LeadingSpaces(m))
      lines == Split(m.g4, "\n")
      stripped_lines == [i \in 1..Len(lines) |-> StripLine(lines[i], n)]
  IN Part(TRUE, Strip(m.g3), <<"\n">> \o Join(stripped_lines, <<"\n">>))

\* line 31: the matches of finditer, each search starting where the last
\* match ended
RECURSIVE MatchesFrom(_, _)
MatchesFrom(c, pos) ==
  LET m == Search(c, pos)
  IN IF ~m.ok THEN <<>> ELSE <<m>> \o MatchesFrom(c, m.end)

finditer(c) == MatchesFrom(c, 0)

\* lines 31-55: the loop over the matches, then the text after the last one
RECURSIVE PartsOf(_, _, _, _)
PartsOf(c, ms, last_pos, acc) ==
  IF ms = <<>>
  THEN IF last_pos < Len(c)
       THEN Append(acc, Part(FALSE, <<>>, Slice(c, last_pos, Len(c))))
       ELSE acc
  ELSE LET m == Head(ms)
       IN PartsOf(c, Tail(ms), m.end,
            (IF m.start > last_pos
             THEN Append(acc, Part(FALSE, <<>>, Slice(c, last_pos, m.start)))
             ELSE acc) \o <<CodePart(m)>>)

find_code_blocks(c) == PartsOf(c, finditer(c), 0, <<>>)

-----------------------------------------------------------------------------
(* join_code_blocks, src/main.py:76-103 *)

\* line 89
comment_prefix(lang) == IF lang = "python" THEN <<"#", " ">> ELSE <<"/", "/", " ">>

\* lines 96 and 100
CommentBlock(block, lang) ==
  LET ls == Split(block, "\n")
  IN Join([i \in 1..Len(ls) |-> comment_prefix(lang) \o ls[i]], <<"\n">>)

\* line 92: the block is copied verbatim
IsLinted(p, lang) ==
  p.is_code /\ Contains(p.lang, lang) /\ ~Contains(p.lang, "nolint")

join_code_blocks(ps, lang) ==
  Join([i \in 1..Len(ps) |->
          IF IsLinted(ps[i], lang) THEN ps[i].block
          ELSE CommentBlock(ps[i].block, lang)], <<"\n">>)

-----------------------------------------------------------------------------------------------------------------------------------------------------
(* The analyzer and the two output parsers, src/main.py:58-74, 105-144.    *)
(* What the analyzer writes is a str, a token sequence like the documents: *)
(* the tokens are ":", " ", "\n", the numerals (a numeral is a whole run   *)
(* of digits), the names "temp.py", "temp.cpp" and "temp_cpp", and the     *)
(* words "x", "msg" and "error", which hold none of the others.            *)

\* fname of lint_python (line 59) and lint_cpp (line 68)
TempName(lang) == IF lang = "python" THEN "temp.py" ELSE "temp.cpp"

\* "file:n:1: msg", a diagnostic of flake8 or cppcheck for line n
DiagLine(lang, n) ==
  <<TempName(lang), ":", ToString(n), ":", "1", ":", " ", "msg">>

\* a line without a colon
Garbage == <<"msg">>

\* "file: msg", a line whose second field is no number
NonNumeric(lang) == <<TempName(lang), ":", " ", "msg">>

\* "file:2:1: error: msg", the severity after the column as cppcheck prints it
SeverityLine(lang) ==
  <<TempName(lang), ":", "2", ":", "1", ":", " ", "error", ":", " ", "msg">>

\* "file:2:1:msg", no blank after the third colon
NoBlankLine(lang) == <<TempName(lang), ":", "2", ":", "1", ":", "msg">>

\* "xfile:2:1: msg", the file name preceded by other characters
PrefixedLine(lang) ==
  <<"x", TempName(lang), ":", "2", ":", "1", ":", " ", "msg">>

\* "temp_cpp:2:1: msg", a name that differs from temp.cpp in its fifth character
WildLine == <<"temp_cpp", ":", "2", ":", "1", ":", " ", "msg">>

OutLines(lang) ==
  {Garbage, NonNumeric(lang), SeverityLine(lang), NoBlankLine(lang),
   PrefixedLine(lang), WildLine}
    \cup {DiagLine(lang, n) : n \in 0..MaxLineNo}

\* result.stdout / result.stderr of lines 62 and 71: the lines the analyzer
\* printed, each ended by a newline
Stream(ls) == IF ls = <<>> THEN <<>> ELSE Join(ls, <<"\n">>) \o <<"\n">>

\* what the analyzer may print for one file
Outputs(lang) ==
  {Stream(ls) : ls \in UNION {[1..k -> OutLines(lang)] : k \in 0..MaxOut}}

\* the runs of digits the analyzer prints as line and column numbers: the
\* decimal numerals of 0 .. 99, written without a leading zero
Numerals == {ToString(n) : n \in 0..99}

\* int(field) succeeds: a numeral between optional whitespace
IsNumber(field) == Len(Strip(field)) = 1 /\ Strip(field)[1] \in Numerals

\* int(field)
int(field) == CHOOSE n \in 0..99 : ToString(n) = Strip(field)[1]

Error(num, message) == [num |-> num, message |-> message]

\* src/main.py:117-124, the loop over the lines
RECURSIVE PythonErrors(_)
PythonErrors(lines) ==
  IF lines = <<>> THEN <<>>
  ELSE LET line == Head(lines)
           fields == Split(line, ":")
       IN (IF Len(fields) > 1 /\ IsNumber(fields[2])
           THEN <<Error(int(fields[2]) - 1, line)>>
           ELSE <<>>) \o PythonErrors(Tail(lines))

\* src/main.py:105-125
parse_python_output(output) == PythonErrors(Split(output, "\n"))

\* the names the eight characters "temp.cpp" of the pattern match, the dot
\* standing for any character
TempCppLike == {"temp.cpp", "temp_cpp"}

\* error_pattern of line 138 tried at token i: the name, a colon, digits, a
\* colon, digits, a colon, a blank and at least one more character of the line
CppMatchAt(out, i) ==
  /\ i + 7 <= Len(out)
  /\ out[i] \in TempCppLike
  /\ out[i + 1] = ":" /\ out[i + 2] \in Numerals
  /\ out[i + 3] = ":" /\ out[i + 4] \in Numerals
  /\ out[i + 5] = ":" /\ out[i + 6] = " "
  /\ out[i + 7] # "\n"

\* the last token of the line that holds token i: group 2 is greedy and the
\* dot matches no newline
LineEnd(out, i) ==
  LET nls == {j \in i..Len(out) : out[j] = "\n"}
  IN IF nls = {} THEN Len(out) ELSE Min(nls) - 1

\* lines 139-143: findall takes the leftmost match and goes on after its end
RECURSIVE CppErrors(_, _)
CppErrors(out, from) ==
  LET hits == {i \in from..Len(out) : CppMatchAt(out, i)}
  IN IF hits = {} THEN <<>>
     ELSE LET i == Min(hits)
              e == LineEnd(out, i + 7)
          IN <<Error(int(<<out[i + 2]>>) - 1,
                     <<"temp.cpp", ":", out[i + 2], ":", " ">>
                       \o SubSeq(out, i + 7, e))>>
               \o CppErrors(out, e + 1)

\* src/main.py:127-144
parse_cpp_output(output) == CppErrors(output, 1)

-----
(* main, src/main.py:146-176 *)

\* line 151
relative_path(i) == "doc" \o ToString(i) \o ".md"

\* HasApplicable without the language filter: any code block counts
HasApplicableAnyBlock(ps, lang) == \E i \in 1..Len(ps) : ps[i].is_code

\* HasApplicable that leaves out the blocks marked nolint
HasApplicableNotExempt(ps, lang) ==
  \E i \in 1..Len(ps) :
    /\ Startswith(ps[i].lang, lang) /\ ~Contains(ps[i].lang, "nolint")
    /\ ps[i].is_code

\* line 154: any(is_code for is_code, lang, _ in parts if lang.startswith(language))
HasApplicable(ps, lang) ==
  \E i \in 1..Len(ps) : Startswith(ps[i].lang, lang) /\ ps[i].is_code

\* lines[k] with Python's negative indices
PyIndex(lines, k) == IF k >= 0 THEN lines[k + 1] ELSE lines[Len(lines) + k + 1]

\* line 173: message.replace(temp name, relative_path)
Replace(message, old, new) ==
  [i \in 1..Len(message) |-> IF message[i] = old THEN new ELSE message[i]]

Unit(kind, message, text) == [kind |-> kind, message |-> message, text |-> text]

\* lines 169-173: the units printed for the errors of file i
RECURSIVE Report(_, _, _, _)
Report(errs, lines, lang, i) ==
  IF errs = <<>> THEN <<>>
  ELSE LET e == Head(errs)
       IN (IF e.num < Len(lines)
           THEN <<Unit("diag", Replace(e.message, TempName(lang), relative_path(i)),
                       PyIndex(lines, e.num))>>
           ELSE <<>>) \o Report(Tail(errs), lines, lang, i)

\* line 175
NoProblems(i) == Unit("ok", <<relative_path(i)>>, <<>>)

\* lines 158-163: the parser of the language
Parse(lang, output) ==
  IF lang = "python" THEN parse_python_output(output) ELSE parse_cpp_output(output)

\* lines 150-155: the file holds no block of the language, continue.
\* content_to_lint keeps what the file before left in it and nothing is
\* printed for this file
Skip ==
  /\ pc = "loop" /\ idx < Len(files)
  /\ LET ps == find_code_blocks(files[idx + 1])
     IN /\ ~HasApplicable(ps, language)
        /\ parts' = ps
  /\ idx' = idx + 1
  /\ content' = files[idx + 1]
  /\ printed' = <<>>
  /\ invoked' = FALSE
  /\ analyzer' = "none"
  /\ staged' = FALSE
  /\ UNCHANGED <<files, language, content_to_lint, found_errors,
                 temp_file, reported, pc, result>>

\* lines 150-158/161 and 59-62 / 68-71: the file holds a block of the
\* language; the buffer is built and written to the temp file and
\* subprocess.run starts the analyzer, for which main then waits without a
\* timeout.  The ValueError of line 165 needs an empty buffer or a language
\* outside argparse's choices; a file that passes line 154 has a code part,
\* whose block starts with a newline, so it is never raised here
Launch ==
  /\ pc = "loop" /\ idx < Len(files)
  /\ LET ps == find_code_blocks(files[idx + 1])
         buf == join_code_blocks(ps, language)
     IN /\ HasApplicable(ps, language)
        /\ buf # <<>>
        /\ parts' = ps
        /\ content_to_lint' = buf
  /\ idx' = idx + 1
  /\ content' = files[idx + 1]
  /\ printed' = <<>>
  /\ invoked' = TRUE
  /\ analyzer' = "running"
  /\ staged' = TRUE
  /\ temp_file' = TRUE
  /\ pc' = "running"
  /\ UNCHANGED <<files, language, found_errors, reported, result>>

\* lines 62-65 / 71-74, 159 / 162 and 167-175: the analyzer process has
\* ended, with exit status zero or not (crashed), which the code does not
\* look at; its output is stripped, the temp file removed, the output parsed
\* and reported
Lint ==
  /\ pc = "running"
  /\ LET lines == Splitlines(content_to_lint)
     IN \E stream \in Outputs(language) :
          LET errors == Parse(language, Strip(stream))
              units == Report(errors, lines, language, idx)
          IN /\ found_errors' = (found_errors \/ errors # <<>>)
             /\ printed' = (IF errors # <<>> THEN units
                            ELSE <<NoProblems(idx)>>)
             /\ reported' = (reported \/ (errors # <<>> /\ units # <<>>))
  /\ \E crashed \in BOOLEAN : analyzer' = (IF crashed THEN "crashed" ELSE "ok")
  /\ temp_file' = FALSE
  /\ pc' = "loop"
  /\ UNCHANGED <<files, language, idx, content, parts, content_to_lint,
                 invoked, staged, result>>

\* lines 150-158/161 and 59-62 / 68-71 when the analyzer binary is missing:
\* the temp file is written, subprocess.run raises FileNotFoundError, which
\* neither lint_python / lint_cpp nor main catches; os.remove is not reached
LintRaises ==
  /\ pc = "loop" /\ idx < Len(files)
  /\ LET ps == find_code_blocks(files[idx + 1])
     IN /\ HasApplicable(ps, language)
        /\ join_code_blocks(ps, language) # <<>>
        /\ parts' = ps
        /\ content_to_lint' = join_code_blocks(ps, language)
  /\ idx' = idx + 1
  /\ content' = files[idx + 1]
  /\ printed' = <<>>
  /\ invoked' = TRUE
  /\ analyzer' = "missing"
  /\ staged' = TRUE
  /\ temp_file' = TRUE
  /\ pc' = "raised"
  /\ UNCHANGED <<files, language, found_errors, reported, result>>

\* line 176
Return ==
  /\ pc = "loop" /\ idx = Len(files)
  /\ pc' = "returned"
  /\ result' = (IF found_errors THEN 1 ELSE 0)
  /\ UNCHANGED <<files, language, idx, content, parts, content_to_lint,
                 found_errors, printed, invoked, analyzer, staged, temp_file,
                 reported>>

-----------------------------------------------------------------------------
(* Documents *)

JoinLines(ls) == Join(ls, <<"\n">>)

BBB == <<Backtick, Backtick, Backtick>>
TTT == <<"~", "~", "~">>

\* Example 1 of the documentation: Intro / BBBpython / import os / x=1 / BBB / More
Example1 ==
  JoinLines(<<
    <<"Intro">>, BBB \o <<"python">>, <<"import", " ", "os">>, <<"x=1">>, BBB,
    <<"More">> >>)

\* Example 2: the same with the tag "python nolint"
Example2 ==
  JoinLines(<<
    <<"Intro">>, BBB \o <<"python", " ", "nolint">>, <<"import", " ", "os">>,
    <<"x=1">>, BBB, <<"More">> >>)

\* the layout the script is written for: a blank line on both sides of the
\* fences and a final newline
Spaced ==
  JoinLines(<<
    <<"Intro">>, <<>>, BBB \o <<"python">>, <<"x=1">>, BBB, <<>>, <<"More">>,
    <<>> >>)

\* two blank lines before an unindented fence, an indented code line
TwoBlanks ==
  JoinLines(<< <<>>, <<>>, BBB \o <<"python">>, <<" ", "x">>, BBB, <<>> >>)

Small == JoinLines(<<BBB \o <<"python">>, <<"x">>, BBB>>)

CppDoc == JoinLines(<<BBB \o <<"cpp">>, <<"x">>, BBB, <<>> >>)

ProseDoc == JoinLines(<<<<"Intro">>, <<>> >>)

\* the lines the generated documents are made of
LineKinds ==
  { <<>>, <<"x">>, <<" ", "x">>,
    BBB \o <<"python">>, BBB, <<" ">> \o BBB, TTT, BBB \o <<Backtick>>,
    BBB \o <<"python", " ", "nolint">> }

Docs ==
  {JoinLines(ls) : ls \in UNION {[1..n -> LineKinds] : n \in 1..MaxLines}}
    \cup {Example1, Example2, Spaced, TwoBlanks}

MainDocs == {Example1, Example2, Small, CppDoc, ProseDoc}

-----------------------------------------------------------------------------
(* Spec: main over a directory of at most MaxFiles files *)

Init ==
  /\ files \in UNION {[1..n -> MainDocs] : n \in 0..MaxFiles}
  /\ language \in Languages
  /\ idx = 0
  /\ content = <<>>
  /\ parts = <<>>
  /\ content_to_lint = <<>>
  /\ found_errors = FALSE
  /\ printed = <<>>
  /\ invoked = FALSE
  /\ analyzer = "none"
  /\ staged = FALSE
  /\ temp_file = FALSE
  /\ reported = FALSE
  /\ pc = "loop"
  /\ result = -1

Next == Skip \/ Launch \/ Lint \/ LintRaises \/ Return

Spec == Init /\ [][Next]_vars

-----------------------------------------------------------------------------
(* SpecScan: the functions find_code_blocks and join_code_blocks applied to *)
(* one document and one target language, join_code_blocks to the parts     *)
(* find_code_blocks returned.  Every document is joined, also one that     *)
(* main would pass over at line 154.                                       *)

InitScan ==
  /\ content \in Docs
  /\ language \in Languages
  /\ files = <<content>>
  /\ idx = 0
  /\ parts = <<>>
  /\ content_to_lint = <<>>
  /\ found_errors = FALSE
  /\ printed = <<>>
  /\ invoked = FALSE
  /\ analyzer = "none"
  /\ staged = FALSE
  /\ temp_file = FALSE
  /\ reported = FALSE
  /\ pc = "scan"
  /\ result = -1

FindCodeBlocks ==
  /\ pc = "scan"
  /\ parts' = find_code_blocks(content)
  /\ pc' = "join"
  /\ UNCHANGED <<files, language, idx, content, content_to_lint,
                 found_errors, printed, invoked, analyzer, staged, temp_file,
                 reported, result>>

JoinCodeBlocks ==
  /\ pc = "join"
  /\ content_to_lint' = join_code_blocks(parts, language)
  /\ pc' = "joined"
  /\ UNCHANGED <<files, language, idx, content, parts, found_errors,
                 printed, invoked, analyzer, staged, temp_file, reported,
                 result>>

NextScan == FindCodeBlocks \/ JoinCodeBlocks

SpecScan == InitScan /\ [][NextScan]_vars

-----------------------------------------------------------------------------
(* Vocabulary of the properties *)

\* Document.lines
DocLines(c) == Split(c, "\n")

\* number of lines of a text
LineCount(c) == Len(Split(c, "\n"))

\* number of the line that holds offset o, counted from 1
LineOf(c, o) == 1 + Cardinality({j \in 1..o : c[j] = "\n"})

\* number of whitespace characters a line starts with
Indent(line) ==
  Cardinality({j \in 1..Len(line) : \A k \in 1..j : line[k] \in Whitespace})

IsCode(p) == p.is_code

\* the tag of a block names the language
Tagged(tag, lang) == Len(tag) > 0 /\ Head(tag) = lang

\* the tag of a block carries the nolint modifier
Exempt(tag) == \E i \in 1..Len(tag) : tag[i] = "nolint"

\* the scan of the file taken last is available
Scanned == pc \in {"join", "joined"}
Joined == pc = "joined"

\* lines of the opening and of the closing fence of a match
OpenLine(c, m) == LineOf(c, m.open)
CloseLine(c, m) == LineOf(c, m.fence_close)

\* number of buffer lines a part yields, and the buffer line before its first
PartLines(p) == Len(Split(p.block, "\n"))
RECURSIVE LinesBefore(_, _)
LinesBefore(ps, j) ==
  IF j <= 1 THEN 0 ELSE LinesBefore(ps, j - 1) + PartLines(ps[j - 1])

\* position in parts of the k-th code part
CodeIndex(ps, k) ==
  CHOOSE j \in 1..Len(ps) :
    ps[j].is_code /\ Cardinality({i \in 1..j : ps[i].is_code}) = k

HasPrefix(line, pre) == Len(line) >= Len(pre) /\ SubSeq(line, 1, Len(pre)) = pre

-----------------------------------------------------------------------------
(* C1 (SpecScan): the synthetic buffer has exactly as many lines as the    *)
(* document, for every document and both target languages.  Lines are      *)
(* counted the same way on both sides, either as str.split does (a final   *)
(* newline opens one more, empty, line) or as str.splitlines does.         *)
C1_LineCountPreserved ==
  Joined =>
    \/ LineCount(content_to_lint) = LineCount(content)
    \/ Len(Splitlines(content_to_lint)) = Len(Splitlines(content))

-----------------------------------------------------------------------------
(* C2 (SpecScan) *)

LineKind(c, ms, i) ==
  IF \E k \in 1..Len(ms) : i \in {OpenLine(c, ms[k]), CloseLine(c, ms[k])}
  THEN "fence"
  ELSE IF \E k \in 1..Len(ms) : OpenLine(c, ms[k]) < i /\ i < CloseLine(c, ms[k])
  THEN "code"
  ELSE "prose"

TagOfLine(c, ms, i) ==
  LET k == CHOOSE k \in 1..Len(ms) :
             OpenLine(c, ms[k]) < i /\ i < CloseLine(c, ms[k])
  IN Strip(ms[k].g3)

\* the buffer lines allowed for document line i; the placeholder of a fence
\* line may be the bare comment sign, the comment prefix or an empty line
ExpectedLines(c, ms, lang, i) ==
  LET line == DocLines(c)[i]
      kind == LineKind(c, ms, i)
  IN IF kind = "prose" THEN {comment_prefix(lang) \o line}
     ELSE IF kind = "fence"
     THEN {comment_prefix(lang), Strip(comment_prefix(lang)), <<>>}
     ELSE IF Tagged(TagOfLine(c, ms, i), lang) /\ ~Exempt(TagOfLine(c, ms, i))
     THEN {line}
     ELSE {comment_prefix(lang) \o line}

(* C2 (SpecScan): buffer line i is derived from document line i alone: a   *)
(* prose line becomes prefix + line, a fence line an empty placeholder, a  *)
(* code line of a matching, non-exempt block is copied, any other code     *)
(* line becomes prefix + line.  The lines of the document are those of     *)
(* str.splitlines: the empty piece after a final newline is no line.       *)
C2_LineForLine ==
  Joined =>
    LET buf == Split(content_to_lint, "\n")
        ms == finditer(content)
    IN \A i \in 1..Len(Splitlines(content)) :
         i <= Len(buf) /\ buf[i] \in ExpectedLines(content, ms, language, i)

-----------------------------------------------------------------------------
(* C3 (SpecScan): every line of a block marked nolint is emitted with the  *)
(* comment prefix, and the block takes as many buffer lines as document    *)
(* lines (its two fence lines and what lies between them).                 *)
C3_ExemptCommentedInPlace ==
  Joined =>
    LET buf == Split(content_to_lint, "\n")
        ms == finditer(content)
    IN \A k \in 1..Len(ms) :
         Exempt(Strip(ms[k].g3)) =>
           LET j == CodeIndex(parts, k)
               first == LinesBefore(parts, j) + 1
               n == PartLines(parts[j])
           IN /\ \A i \in first..(first + n - 1) :
                   HasPrefix(buf[i], comment_prefix(language))
              /\ n = CloseLine(content, ms[k]) - OpenLine(content, ms[k]) + 1

-----------------------------------------------------------------------------
(* C9 (SpecScan) *)

\* the fence characters a line shows after its indentation
FenceRun(line, fam) ==
  Cardinality({j \in (Indent(line) + 1)..Len(line) :
                 \A k \in (Indent(line) + 1)..j : line[k] = fam})

\* a closing line as the claim describes it
ClosesAsClaimed(line, ind, fam) ==
  /\ Indent(line) = ind
  /\ FenceRun(line, fam) >= 3
  /\ \A j \in (Indent(line) + FenceRun(line, fam) + 1)..Len(line) :
       line[j] \in Whitespace

\* optional whitespace, exactly three fence characters, optional whitespace
BareFence(line, fam) == Strip(line) = <<fam, fam, fam>>

(* C9 as claimed: a block is closed by the first later line that has the   *)
(* indentation of the opening fence and three or more fence characters of  *)
(* the same family; other fence lines are content.                         *)
C9_ClosedBySameIndentFence ==
  Scanned =>
    LET ms == finditer(content)
        ls == DocLines(content)
    IN \A k \in 1..Len(ms) :
         LET o == OpenLine(content, ms[k])
         IN /\ ClosesAsClaimed(ls[CloseLine(content, ms[k])], Indent(ls[o]), ms[k].g2)
            /\ \A i \in (o + 1)..(CloseLine(content, ms[k]) - 1) :
                 ~ClosesAsClaimed(ls[i], Indent(ls[o]), ms[k].g2)

(* C9 as amended: a block is closed by the first line after the opening    *)
(* line that holds, between optional whitespace, exactly three fence       *)
(* characters of the family of the opening fence, at any indentation; a    *)
(* line of the other family, a line of four or more fence characters and a *)
(* fence followed by text do not close it.                                 *)
C9_ClosedByFirstBareFence ==
  Scanned =>
    LET ms == finditer(content)
        ls == DocLines(content)
    IN /\ Len(SelectSeq(parts, IsCode)) = Len(ms)
       /\ \A k \in 1..Len(ms) :
            LET o == OpenLine(content, ms[k])
                cl == CloseLine(content, ms[k])
            IN /\ o < cl
               /\ BareFence(ls[cl], ms[k].g2)
               /\ \A i \in (o + 1)..(cl - 1) : ~BareFence(ls[i], ms[k].g2)
               \* the lines in between that are not blank are the block's content
               /\ \A i \in (o + 1)..(cl - 1) :
                    Strip(ls[i]) # <<>> =>
                      \E x \in 1..Len(Split(ms[k].g4, "\n")) :
                        Split(ms[k].g4, "\n")[x] = ls[i]

\* a block closed by a fence indented otherwise than its opening fence, with
\* a fence line of the other family or of four characters inside it
C9_Witness ==
  /\ Scanned
  /\ \E k \in 1..Len(finditer(content)) :
       LET m == finditer(content)[k]
           ls == DocLines(content)
           o == OpenLine(content, m)
           cl == CloseLine(content, m)
       IN /\ Indent(ls[cl]) # Indent(ls[o])
          /\ \E i \in (o + 1)..(cl - 1) :
               Len(ls[i]) >= 3 /\ ls[i][1] \in FenceChars
               /\ ls[i][2] = ls[i][1] /\ ls[i][3] = ls[i][1]

-----------------------------------------------------------------------------
(* C10 (SpecScan): for a fence indented by k characters, a content line    *)
(* that starts with k blanks loses exactly those k characters and any      *)
(* other content line is unchanged; for k = 0 no content line changes.     *)
C10_IndentationStripped ==
  Scanned =>
    LET ms == finditer(content)
        cps == SelectSeq(parts, IsCode)
    IN \A k \in 1..Len(ms) :
         LET ind == Indent(DocLines(content)[OpenLine(content, ms[k])])
             raw == Split(ms[k].g4, "\n")
             got == Split(Tail(cps[k].block), "\n")
         IN /\ Len(got) = Len(raw)
            /\ \A i \in 1..Len(raw) :
                 got[i] = IF Len(raw[i]) >= ind /\ \A x \in 1..ind : raw[i][x] = " "
                          THEN SubSeq(raw[i], ind + 1, Len(raw[i]))
                          ELSE raw[i]

-----------------------------------------------------------------------------
(* Properties of main (Spec) *)

\* main has taken a file; content, parts, printed, ... describe it
Taken == idx > 0

\* the code blocks of the file taken last whose tag names the language
TaggedBlocks == {j \in 1..Len(parts) : parts[j].is_code /\ Tagged(parts[j].lang, language)}

\* the diagnostics printed for the file taken last
Diagnostics == {i \in 1..Len(printed) : printed[i].kind = "diag"}

(* C4 (Spec): main returns 1 exactly when some document had a diagnostic   *)
(* reported, and 0 otherwise.                                              *)
C4_FailureIffReported ==
  pc = "returned" => (result = 1 <=> reported) /\ result \in {0, 1}

(* C5 (Spec): a document with no code block tagged with the target         *)
(* language is skipped: the analyzer is not invoked, no staging file is    *)
(* written, nothing is printed for it; and main's failure flag can only be *)
(* set once a document with a block of the language has been taken.        *)
C5_NoTaggedBlockSkipped ==
  /\ (Taken /\ TaggedBlocks = {}) =>
       /\ ~invoked /\ ~staged /\ analyzer = "none"
       /\ printed = <<>>
  /\ found_errors =>
       \E i \in 1..idx :
         \E j \in 1..Len(find_code_blocks(files[i])) :
           /\ find_code_blocks(files[i])[j].is_code
           /\ Tagged(find_code_blocks(files[i])[j].lang, language)

\* Example 1, whose only block is tagged python, taken with target cpp
C5_Witness ==
  /\ Taken /\ language = "cpp" /\ content = Example1
  /\ SelectSeq(parts, IsCode) # <<>> /\ TaggedBlocks = {} /\ ~invoked

\* every block of the target language is marked nolint
AllTaggedExempt == \A j \in TaggedBlocks : Exempt(parts[j].lang)

(* C6 as claimed: a document all of whose blocks of the target language    *)
(* are marked nolint is skipped, the analyzer is not invoked.              *)
C6_AllExemptSkipped ==
  (Taken /\ AllTaggedExempt) => ~invoked /\ ~staged

(* C6 as amended: such a document, when it has at least one block of the   *)
(* target language, is not skipped: the buffer is staged and the analyzer  *)
(* is invoked on it, and in that buffer every line of the exempt blocks    *)
(* carries the comment prefix.                                             *)
C6_AllExemptStillLinted ==
  (Taken /\ TaggedBlocks # {} /\ AllTaggedExempt) =>
    /\ invoked /\ staged
    /\ content_to_lint = join_code_blocks(parts, language)
    /\ \A j \in TaggedBlocks :
         \A i \in (LinesBefore(parts, j) + 1)..(LinesBefore(parts, j) + PartLines(parts[j])) :
           HasPrefix(Split(content_to_lint, "\n")[i], comment_prefix(language))

\* Example 2 (tag "python nolint") taken with target python
C6_Witness ==
  /\ Taken /\ language = "python" /\ content = Example2
  /\ TaggedBlocks # {} /\ AllTaggedExempt /\ invoked

(* C7 (Spec): the source line printed beneath a diagnostic for line n is   *)
(* line n of the document, and a diagnostic for a line the document does   *)
(* not have shows no line at all.                                          *)
C7_SourceLineShown ==
  \A i \in Diagnostics :
    LET n == int(Split(printed[i].message, ":")[2])
    IN /\ n \in 1..Len(DocLines(content))
       /\ printed[i].text = DocLines(content)[n]

(* C8 (Spec): when the analyzer invocation for a document fails (binary    *)
(* missing, crash), main prints a diagnostic for that document, goes on    *)
(* with the next document and returns 1.                                   *)
C8_AnalyzerFailureReported ==
  analyzer \in {"missing", "crashed"} =>
    /\ pc # "raised"
    /\ Diagnostics # {}
    /\ found_errors

====
